---- MODULE Spec2Model ----
(***************************************************************************)
(* Model of rust-axum-rest-api/src/main.rs: six axum handlers, each        *)
(* issuing exactly one SQL statement on a shared Postgres pool and mapping *)
(* the statement's result to an HTTP status and a JSON body.               *)
(*                                                                         *)
(* The database is the state.  Each handler sends one statement, which    *)
(* the storage executes atomically, and maps its result to the response.   *)
(* Spec serves requests one statement at a time, in any order.  SpecConc   *)
(* adds the callers: a caller sends a request (the router dispatches it to *)
(* a handler, which awaits its statement) and several callers may await at *)
(* the same time, so the statements of concurrent requests execute in      *)
(* every order.  Nothing reads a request's parameters before its statement *)
(* executes, so they are drawn in the step that executes it.               *)
(***************************************************************************)
EXTENDS Integers, Sequences, FiniteSets, TLC

\* ------------------------------------------------------------- bounds
\* Cap on the values the posts id sequence hands out.
MaxPosts == 2
\* Cap on the values the users id sequence hands out.
MaxUsers == 1

\* ------------------------------------------------------------- values
Callers == {"a", "b"}

\* The title and body of the posts clients submit.
Contents ==
    {[title |-> "Hi", body |-> "World"], [title |-> "T", body |-> "B"]}
Usernames == {"alice"}
Emails == {"a@x.com"}

\* Option<i32>: None is the empty tuple, Some(x) the one-element tuple.
None == <<>>
Some(x) == <<x>>

\* Path ids a client may send: an id matches no post before the sequence
\* hands it out and after its post is deleted.
PathIds == 1..MaxPosts
\* user_id values a client may send: an id references no user until the
\* users sequence hands it out.
UserIdInputs == {None} \cup {Some(u) : u \in 1..MaxUsers}

\* HTTP status codes used by the handlers.
OK == 200
NOT_FOUND == 404
INTERNAL_SERVER_ERROR == 500

\* Request bodies (the Json extractors' types).
CreatePost ==
    {[user_id |-> u, title |-> c.title, body |-> c.body] :
        u \in UserIdInputs, c \in Contents}
UpdatePost ==
    {[title |-> c.title, body |-> c.body, user_id |-> u] :
        c \in Contents, u \in UserIdInputs}
CreateUser == [username : Usernames, email : Emails]

\* A stored row of posts is [user_id, title, body] under its id; the
\* response struct Post carries the id as a field.
Post(id, user_id, title, body) ==
    [id |-> id, user_id |-> user_id, title |-> title, body |-> body]
User(id, username, email) ==
    [id |-> id, username |-> username, email |-> email]

\* serde's derived Serialize: every field of the struct becomes a key of
\* the JSON object; an Option that is None is written as null (None here).
PostToJson(p) ==
    [id |-> p.id, user_id |-> p.user_id, title |-> p.title, body |-> p.body]
UserToJson(u) ==
    [id |-> u.id, username |-> u.username, email |-> u.email]

\* ------------------------------------------------------------ storage
\* The database: the two tables and the two id sequences.
EmptyDb ==
    [posts |-> <<>>, users |-> <<>>, posts_id_seq |-> 0, users_id_seq |-> 0]

\* posts.user_id is a nullable foreign key into users.id.
ForeignKeyOk(db, user_id) ==
    user_id = None \/ user_id[1] \in DOMAIN db.users

\* The ids are generated by the storage: each table's sequence hands out
\* the next value, and never hands a value out twice.
NextPostId(db) == db.posts_id_seq + 1
NextUserId(db) == db.users_id_seq + 1

\* A function with one more point.
Put(f, k, v) == [x \in (DOMAIN f) \cup {k} |-> IF x = k THEN v ELSE f[x]]
\* A function with one point less.
Drop(f, k) == [x \in (DOMAIN f) \ {k} |-> f[x]]

\* The result of a statement: the database after it, the rows it returns,
\* the number of rows it returned or changed, and the error ("none",
\* "Database": a constraint violation, "Io": the connection failed).
StmtOk(db, rows, affected) ==
    [db |-> db, rows |-> rows, affected |-> affected, err |-> "none"]
StmtErr(db, e) == [db |-> db, rows |-> <<>>, affected |-> 0, err |-> e]

\* "SELECT id, title, body FROM posts": one row per stored post, three
\* columns, in the order the storage returns them (no ORDER BY).
SelectPosts(db, order) ==
    StmtOk(db,
           [i \in 1..Len(order) |->
              [id |-> order[i],
               title |-> db.posts[order[i]].title,
               body |-> db.posts[order[i]].body]],
           Len(order))

\* Mutant: the single-row query written like the list query, without the
\* user_id column.
SelectPost_no_user_id(db, id) ==
    IF id \in DOMAIN db.posts
    THEN StmtOk(db, <<[id |-> id, title |-> db.posts[id].title,
                       body |-> db.posts[id].body]>>, 1)
    ELSE StmtOk(db, <<>>, 0)

\* "SELECT id, user_id, title, body FROM posts WHERE id = $1"
SelectPost(db, id) ==
    IF id \in DOMAIN db.posts
    THEN StmtOk(db, <<[id |-> id,
                       user_id |-> db.posts[id].user_id,
                       title |-> db.posts[id].title,
                       body |-> db.posts[id].body]>>, 1)
    ELSE StmtOk(db, <<>>, 0)

\* "INSERT INTO posts (user_id, title, body) VALUES ($1, $2, $3)
\*  RETURNING id, title, body, user_id".  The id comes from the sequence.
InsertPost(db, user_id, title, body) ==
    LET id == NextPostId(db)
    IN IF ~ForeignKeyOk(db, user_id)
       THEN StmtErr(db, "Database")
       ELSE StmtOk([db EXCEPT !.posts_id_seq = id,
                              !.posts = Put(@, id, [user_id |-> user_id,
                                                    title |-> title,
                                                    body |-> body])],
                   <<[id |-> id, title |-> title, body |-> body,
                      user_id |-> user_id]>>, 1)

\* Mutant: "SET title = $1, body = $2": the user_id of the row is kept,
\* the statement still returns the row.
UpdatePostStmt_keeps_user_id(db, title, body, user_id, id) ==
    IF id \notin DOMAIN db.posts
    THEN StmtOk(db, <<>>, 0)
    ELSE IF ~ForeignKeyOk(db, user_id)
    THEN StmtErr(db, "Database")
    ELSE StmtOk([db EXCEPT !.posts[id] =
                    [user_id |-> @.user_id, title |-> title, body |-> body]],
                <<[id |-> id, user_id |-> user_id, title |-> title,
                   body |-> body]>>, 1)

\* Mutant: an upsert, "INSERT ... ON CONFLICT (id) DO UPDATE": an id that
\* matches no row gets one.
UpdatePostStmt_upsert(db, title, body, user_id, id) ==
    IF ~ForeignKeyOk(db, user_id)
    THEN StmtErr(db, "Database")
    ELSE StmtOk([db EXCEPT !.posts =
                    Put(@, id, [user_id |-> user_id, title |-> title,
                                body |-> body])],
                <<[id |-> id, user_id |-> user_id, title |-> title,
                   body |-> body]>>, 1)

\* "UPDATE posts SET title = $1, body = $2, user_id = $3 WHERE id = $4
\*  RETURNING id, user_id, title, body".  No row matches: nothing is
\* checked, nothing changes, no row is returned.
UpdatePostStmt(db, title, body, user_id, id) ==
    IF id \notin DOMAIN db.posts
    THEN StmtOk(db, <<>>, 0)
    ELSE IF ~ForeignKeyOk(db, user_id)
    THEN StmtErr(db, "Database")
    ELSE StmtOk([db EXCEPT !.posts[id] =
                    [user_id |-> user_id, title |-> title, body |-> body]],
                <<[id |-> id, user_id |-> user_id, title |-> title,
                   body |-> body]>>, 1)

\* "DELETE FROM posts WHERE id = $1"
DeletePostStmt(db, id) ==
    StmtOk([db EXCEPT !.posts = Drop(@, id)], <<>>,
           IF id \in DOMAIN db.posts THEN 1 ELSE 0)

\* "INSERT INTO users (username, email) VALUES ($1, $2)
\*  RETURNING id, username, email"
InsertUser(db, username, email) ==
    LET id == NextUserId(db)
    IN StmtOk([db EXCEPT !.users_id_seq = id,
                         !.users = Put(@, id, [username |-> username,
                                               email |-> email])],
              <<[id |-> id, username |-> username, email |-> email]>>, 1)

\* A statement sent over the pool: when the connection fails the
\* statement does not run.
OnPool(db, conn_ok, stmt) == IF conn_ok THEN stmt ELSE StmtErr(db, "Io")

\* sqlx's fetch_one: the first row, RowNotFound when there is none.
fetch_one(r) ==
    IF r.err # "none" THEN [ok |-> FALSE, err |-> r.err, rows |-> <<>>]
    ELSE IF r.rows = <<>>
    THEN [ok |-> FALSE, err |-> "RowNotFound", rows |-> <<>>]
    ELSE [ok |-> TRUE, err |-> "none", rows |-> <<r.rows[1]>>]

\* sqlx's fetch_all: every row.
fetch_all(r) ==
    IF r.err # "none" THEN [ok |-> FALSE, err |-> r.err, rows |-> <<>>]
    ELSE [ok |-> TRUE, err |-> "none", rows |-> r.rows]

\* sqlx's execute: no row is read, the number of rows changed is returned.
execute(r) ==
    IF r.err # "none" THEN [ok |-> FALSE, err |-> r.err, rows_affected |-> 0]
    ELSE [ok |-> TRUE, err |-> "none", rows_affected |-> r.affected]

\* query_as!(Post, ...): the struct built from a row's columns.  The row of
\* the list query has no user_id column; the struct's field is then None.
PostFromRow(row) ==
    Post(row.id,
         IF "user_id" \in DOMAIN row THEN row.user_id ELSE None,
         row.title, row.body)
UserFromRow(row) == User(row.id, row.username, row.email)

\* ----------------------------------------------------------- handlers
\* What a handler produces from its statement st: the database after it,
\* the statement's error and row count, the number of statements sent, and
\* the response (status, kind of body, body).
Reply(st, err, status, kind, json) ==
    [db |-> st.db, err |-> err, affected |-> st.affected, statements |-> 1,
     status |-> status, kind |-> kind, json |-> json]
\* Err(StatusCode): a bare status, no body.
Bare(st, err, status) == Reply(st, err, status, "none", <<>>)

get_posts(db, conn_ok, order) ==
    LET st == OnPool(db, conn_ok, SelectPosts(db, order))
        posts == fetch_all(st)
    IN IF ~posts.ok
       THEN Bare(st, posts.err, INTERNAL_SERVER_ERROR)
       ELSE Reply(st, "none", OK, "Vec<Post>",
                  [i \in 1..Len(posts.rows) |->
                      PostToJson(PostFromRow(posts.rows[i]))])

\* Mutant: fetch_optional, answering 200 with a null body when no row
\* matches.
get_post_optional(db, conn_ok, id) ==
    LET st == OnPool(db, conn_ok, SelectPost(db, id))
        post == fetch_one(st)
    IN IF post.ok
       THEN Reply(st, "none", OK, "Post",
                  PostToJson(PostFromRow(post.rows[1])))
       ELSE IF post.err = "RowNotFound"
       THEN Reply(st, post.err, OK, "null", <<>>)
       ELSE Bare(st, post.err, NOT_FOUND)

get_post(db, conn_ok, id) ==
    LET st == OnPool(db, conn_ok, SelectPost(db, id))
        post == fetch_one(st)
    IN IF ~post.ok
       THEN Bare(st, post.err, NOT_FOUND)
       ELSE Reply(st, "none", OK, "Post",
                  PostToJson(PostFromRow(post.rows[1])))

\* Mutant: title and body bound to each other's parameter.
create_post_swapped(db, conn_ok, new_post) ==
    LET st == OnPool(db, conn_ok,
                     InsertPost(db, new_post.user_id, new_post.body,
                                new_post.title))
        post == fetch_one(st)
    IN IF ~post.ok
       THEN Bare(st, post.err, INTERNAL_SERVER_ERROR)
       ELSE Reply(st, "none", OK, "Post",
                  PostToJson(PostFromRow(post.rows[1])))

\* Mutant: the error mapped as the handlers of /posts/:id map it.
create_post_not_found(db, conn_ok, new_post) ==
    LET st == OnPool(db, conn_ok,
                     InsertPost(db, new_post.user_id, new_post.title,
                                new_post.body))
        post == fetch_one(st)
    IN IF ~post.ok
       THEN Bare(st, post.err, NOT_FOUND)
       ELSE Reply(st, "none", OK, "Post",
                  PostToJson(PostFromRow(post.rows[1])))

create_post(db, conn_ok, new_post) ==
    LET st == OnPool(db, conn_ok,
                     InsertPost(db, new_post.user_id, new_post.title,
                                new_post.body))
        post == fetch_one(st)
    IN IF ~post.ok
       THEN Bare(st, post.err, INTERNAL_SERVER_ERROR)
       ELSE Reply(st, "none", OK, "Post",
                  PostToJson(PostFromRow(post.rows[1])))

\* Mutant: a patch, the user_id bound only when the request has one
\* ("user_id = COALESCE($3, user_id)").
update_post_patch(db, conn_ok, id, updated_post) ==
    LET keep == IF updated_post.user_id = None /\ id \in DOMAIN db.posts
                THEN db.posts[id].user_id
                ELSE updated_post.user_id
        st == OnPool(db, conn_ok,
                     UpdatePostStmt(db, updated_post.title, updated_post.body,
                                    keep, id))
        post == fetch_one(st)
    IN IF post.ok
       THEN Reply(st, "none", OK, "Post",
                  PostToJson(PostFromRow(post.rows[1])))
       ELSE Bare(st, post.err, NOT_FOUND)

update_post(db, conn_ok, id, updated_post) ==
    LET st == OnPool(db, conn_ok,
                     UpdatePostStmt(db, updated_post.title, updated_post.body,
                                    updated_post.user_id, id))
        post == fetch_one(st)
    IN IF post.ok
       THEN Reply(st, "none", OK, "Post",
                  PostToJson(PostFromRow(post.rows[1])))
       ELSE Bare(st, post.err, NOT_FOUND)

\* Mutant: an existence check, 404 when the statement deleted no row.
delete_post_checked(db, conn_ok, id) ==
    LET st == OnPool(db, conn_ok, DeletePostStmt(db, id))
        result == execute(st)
    IN IF result.ok /\ result.rows_affected > 0
       THEN Reply(st, "none", OK, "Message",
                  [message |-> "Post deleted successfully"])
       ELSE Bare(st, result.err, NOT_FOUND)

delete_post(db, conn_ok, id) ==
    LET st == OnPool(db, conn_ok, DeletePostStmt(db, id))
        result == execute(st)
    IN IF result.ok
       THEN Reply(st, "none", OK, "Message",
                  [message |-> "Post deleted successfully"])
       ELSE Bare(st, result.err, NOT_FOUND)

\* Mutant: the error mapped as update_post maps it.
create_user_not_found(db, conn_ok, new_user) ==
    LET st == OnPool(db, conn_ok,
                     InsertUser(db, new_user.username, new_user.email))
        user == fetch_one(st)
    IN IF ~user.ok
       THEN Bare(st, user.err, NOT_FOUND)
       ELSE Reply(st, "none", OK, "User",
                  UserToJson(UserFromRow(user.rows[1])))

create_user(db, conn_ok, new_user) ==
    LET st == OnPool(db, conn_ok,
                     InsertUser(db, new_user.username, new_user.email))
        user == fetch_one(st)
    IN IF ~user.ok
       THEN Bare(st, user.err, INTERNAL_SERVER_ERROR)
       ELSE Reply(st, "none", OK, "User",
                  UserToJson(UserFromRow(user.rows[1])))

\* -------------------------------------------------------------- state
VARIABLES
    pool,       \* the database behind the shared pool
    pc,         \* per caller: idle, or awaiting the statement of a request
    last,       \* the request whose statement executed last, what the
                \* statement did and the response
    prev,       \* the create or update of the same post that succeeded just
                \* before last
    created     \* the ids the successful creates of posts returned, in order

vars == <<pool, pc, last, prev, created>>

Idle == [at |-> "idle", overtaken |-> FALSE]
NoEvent == [op |-> "none", json |-> <<>>]

Init ==
    /\ pool = EmptyDb
    /\ pc = [c \in Callers |-> Idle]
    /\ last = [op |-> "none", id |-> 0, body |-> <<>>,
               overtaken |-> FALSE, err |-> "none", affected |-> 0,
               statements |-> 0,
               status |-> 0, kind |-> "none", json |-> <<>>]
    /\ prev = NoEvent
    /\ created = <<>>

\* What prev keeps of the event before a request on post id: a create or
\* an update of that post that succeeded, with the values submitted.
Summary(ev, id) ==
    IF ev.op \in {"create_post", "update_post"} /\ ev.status = OK
       /\ ev.json.id = id
    THEN [op |-> ev.op, json |-> ev.body]
    ELSE NoEvent

\* The statement of a request (op, path id, body) has executed with result
\* r: the database changes and the response goes out.  overtaken tells
\* whether another request's statement executed while this one was awaited.
Respond(op, id, body, overtaken, r) ==
    /\ pool' = r.db
    /\ prev' = Summary(last, id)
    /\ last' = [op |-> op, id |-> id, body |-> body,
                overtaken |-> overtaken,
                err |-> r.err, affected |-> r.affected,
                statements |-> r.statements,
                status |-> r.status, kind |-> r.kind, json |-> r.json]
    /\ created' = IF op = "create_post" /\ r.status = OK
                  THEN Append(created, r.json.id)
                  ELSE created

\* All orders in which the storage may return the rows with the ids in S.
RECURSIVE Orders(_)
Orders(S) ==
    IF S = {} THEN {<<>>}
    ELSE UNION {{<<x>> \o o : o \in Orders(S \ {x})} : x \in S}

\* The handlers' steps.  conns is what the connection may do (TRUE: the
\* statement reaches the storage, FALSE: the connection fails).
GetPosts(ov, conns) ==
    \E conn_ok \in conns, order \in Orders(DOMAIN pool.posts) :
        Respond("get_posts", 0, <<>>, ov, get_posts(pool, conn_ok, order))

GetPost(ov, conns) ==
    \E conn_ok \in conns, id \in PathIds :
        Respond("get_post", id, <<>>, ov, get_post(pool, conn_ok, id))

CreatePostReq(ov, conns) ==
    \E conn_ok \in conns, new_post \in CreatePost :
        /\ pool.posts_id_seq < MaxPosts
        /\ Respond("create_post", 0, new_post, ov,
                   create_post(pool, conn_ok, new_post))

UpdatePostReq(ov, conns) ==
    \E conn_ok \in conns, id \in PathIds, updated_post \in UpdatePost :
        Respond("update_post", id, updated_post, ov,
                update_post(pool, conn_ok, id, updated_post))

DeletePost(ov, conns) ==
    \E conn_ok \in conns, id \in PathIds :
        Respond("delete_post", id, <<>>, ov, delete_post(pool, conn_ok, id))

CreateUserReq(ov, conns) ==
    \E conn_ok \in conns, new_user \in CreateUser :
        /\ pool.users_id_seq < MaxUsers
        /\ Respond("create_user", 0, new_user, ov,
                   create_user(pool, conn_ok, new_user))

\* Requests served one at a time; the connection may fail.
Next ==
    \/ GetPosts(FALSE, BOOLEAN) /\ UNCHANGED pc
    \/ GetPost(FALSE, BOOLEAN) /\ UNCHANGED pc
    \/ CreatePostReq(FALSE, BOOLEAN) /\ UNCHANGED pc
    \/ UpdatePostReq(FALSE, BOOLEAN) /\ UNCHANGED pc
    \/ DeletePost(FALSE, BOOLEAN) /\ UNCHANGED pc
    \/ CreateUserReq(FALSE, BOOLEAN) /\ UNCHANGED pc

Spec == Init /\ [][Next]_vars

\* --------------------------------------------------- concurrent callers
\* A caller sends a request: the router hands it to its handler, which
\* sends its statement and awaits it (main, the routes).
Request(c) ==
    /\ pc[c].at = "idle"
    /\ pc' = [pc EXCEPT ![c] = [at |-> "awaiting", overtaken |-> FALSE]]
    /\ UNCHANGED <<pool, last, prev, created>>

\* The statement caller c awaits executes: c gets its response and may
\* send again; a caller still awaiting has been overtaken.
Execute(c) ==
    /\ pc[c].at = "awaiting"
    /\ pc' = [d \in Callers |->
                IF d = c \/ pc[d].at = "idle" THEN Idle
                ELSE [pc[d] EXCEPT !.overtaken = TRUE]]

\* Concurrent callers.  The storage is reachable here: a statement that
\* does not reach it changes nothing.
NextConc ==
    \E c \in Callers :
        \/ Request(c)
        \/ Execute(c) /\ GetPosts(pc[c].overtaken, {TRUE})
        \/ Execute(c) /\ GetPost(pc[c].overtaken, {TRUE})
        \/ Execute(c) /\ CreatePostReq(pc[c].overtaken, {TRUE})
        \/ Execute(c) /\ UpdatePostReq(pc[c].overtaken, {TRUE})
        \/ Execute(c) /\ DeletePost(pc[c].overtaken, {TRUE})
        \/ Execute(c) /\ CreateUserReq(pc[c].overtaken, {TRUE})

SpecConc == Init /\ [][NextConc]_vars

\* ------------------------------------------------------------- claims
\* The row a request body asks the storage to hold.
RowOf(b) == [user_id |-> b.user_id, title |-> b.title, body |-> b.body]
\* The Post a response must carry for row id holding a request body's values.
PostOf(id, b) ==
    [id |-> id, user_id |-> b.user_id, title |-> b.title, body |-> b.body]
\* The ids in a sequence.
Range(q) == {q[i] : i \in DOMAIN q}
\* The storage error of a statement, as opposed to a row that is not there.
StorageFailed(ev) == ev.err \in {"Io", "Database"}
Message == [message |-> "Post deleted successfully"]

\* C1: a successful create-post returns a Post with the submitted title,
\* body and user_id, and its id differs from the id every earlier
\* successful create-post returned, the creates of posts deleted since
\* included.
C1_CreateReturnsSubmittedFreshId ==
    /\ \A i, j \in DOMAIN created : i # j => created[i] # created[j]
    /\ (last.op = "create_post" /\ last.status = OK) =>
          /\ last.kind = "Post"
          /\ created # <<>>
          /\ last.json = PostOf(created[Len(created)], last.body)

\* A create succeeded after an earlier create whose post was deleted since.
C1_Witness ==
    /\ last.op = "create_post"
    /\ last.status = OK
    /\ Len(created) >= 2
    /\ \E i \in 1..(Len(created) - 1) : created[i] \notin DOMAIN pool.posts
    /\ last.json.user_id # None

\* C2: a get-post of the id a create-post has just returned, with no other
\* request in between, returns 200 and a Post with that id and the title,
\* body and user_id submitted to the create (the get's statement reaching
\* the storage).
C2_GetAfterCreate ==
    (last.op = "get_post" /\ prev.op = "create_post" /\ last.err # "Io") =>
        /\ last.status = OK
        /\ last.kind = "Post"
        /\ last.json = PostOf(last.id, prev.json)

\* A get right after the create of a post that has a user.
C2_Witness ==
    /\ last.op = "get_post"
    /\ prev.op = "create_post"
    /\ last.status = OK
    /\ last.json.user_id # None

\* C3: a get-post of id X right after a successful update-post of X returns
\* exactly the id X and the title, body and user_id of the update's
\* request, a null user_id included (the get's statement reaching the
\* storage).
C3_GetAfterUpdate ==
    (last.op = "get_post" /\ prev.op = "update_post" /\ last.err # "Io") =>
        /\ last.status = OK
        /\ last.kind = "Post"
        /\ last.json = PostOf(last.id, prev.json)

\* A get right after an update whose request had a null user_id while a
\* user exists.
C3_Witness ==
    /\ last.op = "get_post"
    /\ prev.op = "update_post"
    /\ last.status = OK
    /\ prev.json.user_id = None
    /\ last.json.user_id = None
    /\ pool.users # <<>>

\* C4: a delete-post of an id that matches no stored post, its statement
\* not failing, returns 200 with the body {"message": "Post deleted
\* successfully"} and leaves the stored posts and users as they were.
C4_DeleteMissingSucceeds ==
    [][(last'.op = "delete_post" /\ last'.id \notin DOMAIN pool.posts
        /\ last'.err = "none") =>
          /\ last'.status = OK
          /\ last'.kind = "Message"
          /\ last'.json = Message
          /\ pool'.posts = pool.posts
          /\ pool'.users = pool.users]_vars

\* A delete that matched no row answered 200 while a post is stored.
C4_Witness ==
    /\ last.op = "delete_post"
    /\ last.err = "none"
    /\ last.affected = 0
    /\ last.status = OK
    /\ pool.posts # <<>>

\* C5: a get-post of an id that matches no stored post (never created, or
\* created and deleted since) returns 404 and no body.
C5_GetMissingNotFound ==
    (last.op = "get_post" /\ last.id \notin DOMAIN pool.posts) =>
        /\ last.status = NOT_FOUND
        /\ last.kind = "none"
        /\ last.json = <<>>

\* A get of an id that a create returned and a delete removed.
C5_Witness ==
    /\ last.op = "get_post"
    /\ last.err = "RowNotFound"
    /\ last.id \in Range(created)
    /\ last.id \notin DOMAIN pool.posts

\* C6: when the statements of two concurrent update-posts of the same post
\* execute, after each the stored row holds, in title, body and user_id,
\* the values of the update that executed last, never a mix with the other
\* update's, and each 200 response carries the values its own request
\* submitted.
C6_LastUpdateWins ==
    (last.op = "update_post" /\ last.status = OK) =>
        /\ last.kind = "Post"
        /\ last.json = PostOf(last.id, last.body)
        /\ last.id \in DOMAIN pool.posts
        /\ pool.posts[last.id] = RowOf(last.body)

\* Two updates of the same post, differing in every field, the second
\* awaited while the first one's statement executed.
C6_Witness ==
    /\ last.op = "update_post"
    /\ last.status = OK
    /\ last.overtaken
    /\ prev.op = "update_post"
    /\ prev.json.title # last.body.title
    /\ prev.json.body # last.body.body
    /\ prev.json.user_id # last.body.user_id

\* C7: list-posts returns 200 and an array with one element per stored
\* post, each carrying only id, title and body, the user_id key absent.
C7_ListOmitsUserId ==
    (last.op = "get_posts" /\ last.err = "none") =>
        /\ last.status = OK
        /\ last.kind = "Vec<Post>"
        /\ Len(last.json) = Cardinality(DOMAIN pool.posts)
        /\ {last.json[i].id : i \in DOMAIN last.json} = DOMAIN pool.posts
        /\ \A i \in DOMAIN last.json :
              /\ DOMAIN last.json[i] = {"id", "title", "body"}
              /\ last.json[i].title = pool.posts[last.json[i].id].title
              /\ last.json[i].body = pool.posts[last.json[i].id].body

\* C8: when the statement of a request fails, the status is 500 for
\* list-posts, create-post and create-user and 404 for get-post,
\* update-post and delete-post, the response has no body, one statement
\* was sent, and the stored posts and users are as they were.
C8_FailureStatus ==
    [][StorageFailed(last') =>
          /\ last'.status =
                IF last'.op \in {"get_posts", "create_post", "create_user"}
                THEN INTERNAL_SERVER_ERROR ELSE NOT_FOUND
          /\ last'.kind = "none"
          /\ last'.json = <<>>
          /\ last'.statements = 1
          /\ pool'.posts = pool.posts
          /\ pool'.users = pool.users]_vars

\* The connection failed under a delete of a stored post.
C8_Witness ==
    /\ last.op = "delete_post"
    /\ last.err = "Io"
    /\ last.id \in DOMAIN pool.posts
    /\ last.status = NOT_FOUND

\* C9: an update-post of an id that matches no stored post returns 404,
\* creates no post with that id, and leaves every stored post and user as
\* it was.
C9_UpdateMissingNotFound ==
    [][(last'.op = "update_post" /\ last'.id \notin DOMAIN pool.posts) =>
          /\ last'.status = NOT_FOUND
          /\ last'.kind = "none"
          /\ last'.id \notin DOMAIN pool'.posts
          /\ pool'.posts = pool.posts
          /\ pool'.users = pool.users]_vars

\* An update matched no row, with a user_id that references a stored user.
C9_Witness ==
    /\ last.op = "update_post"
    /\ last.err = "RowNotFound"
    /\ last.status = NOT_FOUND
    /\ last.body.user_id # None
    /\ ForeignKeyOk(pool, last.body.user_id)

\* C10: every stored post's user_id is null or the id of a stored user; a
\* create-post whose user_id references no user fails with 500 and inserts
\* no row, and an update-post of a stored post whose user_id references no
\* user fails with 404 and leaves the post's title, body and user_id.
PostsReferenceUsers(db) ==
    \A id \in DOMAIN db.posts : ForeignKeyOk(db, db.posts[id].user_id)

C10_ForeignKeyKept ==
    /\ PostsReferenceUsers(pool)
    /\ [][/\ PostsReferenceUsers(pool')
          /\ (last'.op = "create_post"
              /\ ~ForeignKeyOk(pool, last'.body.user_id)) =>
                /\ last'.status = INTERNAL_SERVER_ERROR
                /\ pool'.posts = pool.posts
          /\ (last'.op = "update_post" /\ last'.id \in DOMAIN pool.posts
              /\ ~ForeignKeyOk(pool, last'.body.user_id)) =>
                /\ last'.status = NOT_FOUND
                /\ pool'.posts = pool.posts]_vars

\* An update of a stored post was refused for its user_id.
C10_Witness ==
    /\ last.op = "update_post"
    /\ last.err = "Database"
    /\ last.status = NOT_FOUND
    /\ last.id \in DOMAIN pool.posts

====
